---- MODULE Spec2Model ----
(***************************************************************************)
(* A model of ahocorasick_rs (src/src/lib.rs): the Python-facing classes   *)
(* AhoCorasick (text mode) and BytesAhoCorasick (byte mode), their         *)
(* constructors and their scan methods.  Python strings are sequences of   *)
(* code points; Rust Strings and haystacks are sequences of UTF-8 bytes.   *)
(* The matching engine itself (the aho_corasick crate) is not part of      *)
(* lib.rs; it is modelled from sections 4.2 and 4.3 of the specification.  *)
(***************************************************************************)
EXTENDS Integers, Sequences, FiniteSets, TLC

VARIABLES obj, bobj, call, res

vars == <<obj, bobj, call, res>>

(***************************************************************************)
(* Bounds of the model.                                                    *)
(***************************************************************************)
MaxPatterns == 2
MaxPatLen == 2
MaxHayLen == 3
MaxNewPatterns == 3

(***************************************************************************)
(* Option and Result values.                                               *)
(***************************************************************************)
None == <<>>
Some(x) == <<x>>
IsSome(o) == Len(o) = 1
IsNone(o) == Len(o) = 0

Ok(v) == [ok |-> TRUE, value |-> v, err |-> ""]
Err(e) == [ok |-> FALSE, value |-> <<>>, err |-> e]

\* The three Python exceptions the constructors and scans raise.
TypeError == "TypeError"
EmptyStringError == "ValueError: You passed in an empty string as a pattern"
EmptyBufferError == "ValueError: You passed in an empty pattern"

(***************************************************************************)
(* Sequences helpers.                                                      *)
(***************************************************************************)
Range(s) == {s[i] : i \in 1..Len(s)}

\* s[from..to) with 0-based offsets, as a Rust slice.
Slice(s, from, to) == SubSeq(s, from + 1, to)

RECURSIVE SeqsUpTo(_, _)
SeqsUpTo(S, n) ==
    IF n = 0 THEN {<<>>}
    ELSE LET shorter == SeqsUpTo(S, n - 1)
         IN  shorter \cup {Append(s, x) : s \in {t \in shorter : Len(t) = n - 1}, x \in S}

(***************************************************************************)
(* UTF-8.                                                                  *)
(***************************************************************************)
IsSurrogate(cp) == cp \in 55296..57343

Utf8Char(cp) ==
    IF cp < 128 THEN <<cp>>
    ELSE IF cp < 2048 THEN <<192 + (cp \div 64), 128 + (cp % 64)>>
    ELSE IF cp < 65536
         THEN <<224 + (cp \div 4096), 128 + ((cp \div 64) % 64), 128 + (cp % 64)>>
         ELSE <<240 + (cp \div 262144), 128 + ((cp \div 4096) % 64),
                128 + ((cp \div 64) % 64), 128 + (cp % 64)>>

\* A run of ASCII characters encodes to itself; other text is encoded by halves,
\* which keeps the recursion shallow on long strings.
RECURSIVE Utf8Encode(_)
Utf8Encode(cps) ==
    IF \A i \in 1..Len(cps) : cps[i] < 128 THEN cps
    ELSE IF Len(cps) = 1 THEN Utf8Char(cps[1])
    ELSE LET h == Len(cps) \div 2
         IN  Utf8Encode(SubSeq(cps, 1, h)) \o Utf8Encode(SubSeq(cps, h + 1, Len(cps)))

IsContinuation(b) == b \in 128..191

\* Width of the character whose lead byte is b.
Utf8Width(b) == IF b < 128 THEN 1 ELSE IF b < 224 THEN 2 ELSE IF b < 240 THEN 3 ELSE 4

\* str::is_char_boundary on a haystack's bytes.
IsCharBoundary(h, off) ==
    \/ off = 0
    \/ off = Len(h)
    \/ off \in 1..(Len(h) - 1) /\ ~IsContinuation(h[off + 1])

Utf8DecodeChar(h, i) ==
    LET w == Utf8Width(h[i])
    IN  IF w = 1 THEN h[i]
        ELSE IF w = 2 THEN (h[i] - 192) * 64 + (h[i + 1] - 128)
        ELSE IF w = 3 THEN (h[i] - 224) * 4096 + (h[i + 1] - 128) * 64 + (h[i + 2] - 128)
        ELSE (h[i] - 240) * 262144 + (h[i + 1] - 128) * 4096
             + (h[i + 2] - 128) * 64 + (h[i + 3] - 128)

RECURSIVE Utf8DecodeFrom(_, _)
Utf8DecodeFrom(h, i) ==
    IF i > Len(h) THEN <<>>
    ELSE <<Utf8DecodeChar(h, i)>> \o Utf8DecodeFrom(h, i + Utf8Width(h[i]))

\* The code points of a well-formed UTF-8 byte sequence.
Utf8Decode(h) == Utf8DecodeFrom(h, 1)

(***************************************************************************)
(* Python objects handed to the constructors.                              *)
(***************************************************************************)
PyStr(cps) == [type |-> "str", value |-> cps]
PyInt == [type |-> "int", value |-> <<>>]
PyBuf(bytes) == [type |-> "bytes", value |-> bytes]

\* s.extract::<String>(py).ok(): a str holding a lone surrogate has no UTF-8 form.
extract_String(s) ==
    IF \E i \in 1..Len(s.value) : IsSurrogate(s.value[i]) THEN None
    ELSE Some(Utf8Encode(s.value))

(***************************************************************************)
(* The enums and their conversions to the engine's.                        *)
(***************************************************************************)
PyMatchKind == {"Standard", "LeftmostFirst", "LeftmostLongest"}
Implementation == {"NoncontiguousNFA", "ContiguousNFA", "DFA"}

\* A slip that crosses the two leftmost kinds.
MatchKindFrom_crossed(value) ==
    CASE value = "Standard" -> "MatchKind::Standard"
      [] value = "LeftmostFirst" -> "MatchKind::LeftmostLongest"
      [] value = "LeftmostLongest" -> "MatchKind::LeftmostFirst"

\* impl From<PyMatchKind> for MatchKind
MatchKindFrom(value) ==
    CASE value = "Standard" -> "MatchKind::Standard"
      [] value = "LeftmostFirst" -> "MatchKind::LeftmostFirst"
      [] value = "LeftmostLongest" -> "MatchKind::LeftmostLongest"

\* impl From<Implementation> for AhoCorasickKind
AhoCorasickKindFrom(value) ==
    CASE value = "NoncontiguousNFA" -> "AhoCorasickKind::NoncontiguousNFA"
      [] value = "ContiguousNFA" -> "AhoCorasickKind::ContiguousNFA"
      [] value = "DFA" -> "AhoCorasickKind::DFA"

\* implementation.map(|i| i.into())
KindOption(implementation) ==
    IF IsSome(implementation) THEN Some(AhoCorasickKindFrom(implementation[1])) ELSE None

(***************************************************************************)
(* AhoCorasickBuilder::new().kind(k).match_kind(m).build(patterns): the    *)
(* engine registers the patterns in the order the iterator yields them.    *)
(* With no kind requested the engine picks one itself (a DFA for the small *)
(* pattern sets of this model).                                            *)
(***************************************************************************)
AhoCorasickBuilder_build(kind, match_kind, pats) ==
    Ok([patterns |-> pats,
        match_kind |-> match_kind,
        kind |-> IF IsSome(kind) THEN kind[1] ELSE "AhoCorasickKind::DFA"])

(***************************************************************************)
(* PyAhoCorasick::new                                                      *)
(***************************************************************************)
HeuristicThreshold == 4096

\* patterns.try_iter()?.map_while(..): `src` is the Python list, `pos` the number
\* of elements the Python iterator has handed out, `err` the patterns_error cell.
patterns_iter(src) == [src |-> src, pos |-> 0, err |-> None]

\* One call of next() on patterns_iter.  map_while is not fused: after it has
\* returned None for a bad element, a later call polls the Python iterator again.
patterns_iter_next(it) ==
    IF it.pos >= Len(it.src) THEN [item |-> None, it |-> it]
    ELSE LET o == it.src[it.pos + 1]
             moved == [it EXCEPT !.pos = @ + 1]
         IN  IF o.type = "str" THEN [item |-> Some(o), it |-> moved]
             ELSE [item |-> None, it |-> [moved EXCEPT !.err = Some(TypeError)]]

\* store_patterns.unwrap_or_else(|| { ... }): lines 164-177.
RECURSIVE heuristic_loop(_, _, _)
heuristic_loop(it, patterns, total) ==
    LET n == patterns_iter_next(it)
    IN  IF IsNone(n.item) THEN [store_patterns |-> TRUE, it |-> n.it, patterns |-> patterns]
        ELSE LET s == n.item[1]
                 t == total + Len(s.value)
                 ps == Append(patterns, s)
             IN  IF t > HeuristicThreshold
                 THEN [store_patterns |-> FALSE, it |-> n.it, patterns |-> ps]
                 ELSE heuristic_loop(n.it, ps, t)

\* for s in patterns_iter.by_ref() { patterns.push(s); }: lines 179-183.
RECURSIVE collect_rest(_, _)
collect_rest(it, patterns) ==
    LET n == patterns_iter_next(it)
    IN  IF IsNone(n.item) THEN [it |-> n.it, patterns |-> patterns]
        ELSE collect_rest(n.it, Append(patterns, n.item[1]))

\* The iterator handed to build(): patterns.clone().into_iter().chain(patterns_iter),
\* each element extracted to a String, cut by map_while at the first element that
\* does not extract (silently) or that is empty (setting patterns_error).
RECURSIVE build_input(_, _, _)
build_input(cloned, it, acc) ==
    LET fromClone == Len(cloned) > 0
        n == IF fromClone THEN [item |-> Some(Head(cloned)), it |-> it]
             ELSE patterns_iter_next(it)
        rest == IF fromClone THEN Tail(cloned) ELSE cloned
    IN  IF IsNone(n.item) THEN [it |-> n.it, strings |-> acc]
        ELSE LET s == extract_String(n.item[1])
             IN  IF IsNone(s) THEN [it |-> n.it, strings |-> acc]
                 ELSE IF Len(s[1]) = 0
                 THEN [it |-> [n.it EXCEPT !.err = Some(EmptyStringError)], strings |-> acc]
                 ELSE build_input(rest, n.it, Append(acc, s[1]))

\* A slip that keeps whatever was collected.
retained_always(store_patterns, patterns) == Some(patterns)

\* let patterns = if store_patterns { Some(patterns) } else { None };
retained(store_patterns, patterns) == IF store_patterns THEN Some(patterns) ELSE None

PyAhoCorasick_new(patterns, matchkind, store_patterns, implementation) ==
    LET it0 == patterns_iter(patterns)
        h == IF IsSome(store_patterns)
             THEN [store_patterns |-> store_patterns[1], it |-> it0, patterns |-> <<>>]
             ELSE heuristic_loop(it0, <<>>, 0)
        c == IF h.store_patterns THEN collect_rest(h.it, h.patterns)
             ELSE [it |-> h.it, patterns |-> h.patterns]
        b == build_input(c.patterns, c.it, <<>>)
        built == AhoCorasickBuilder_build(KindOption(implementation),
                                          MatchKindFrom(matchkind), b.strings)
    IN  IF ~built.ok THEN Err(built.err)
        ELSE IF IsSome(b.it.err) THEN Err(b.it.err[1])
        ELSE Ok([ac_impl |-> built.value, patterns |-> retained(h.store_patterns, c.patterns)])

(***************************************************************************)
(* PyBytesAhoCorasick::new                                                 *)
(***************************************************************************)
\* The map_while of lines 380-398 followed by build(): patterns are taken until
\* the first element that is no buffer or is an empty buffer.
RECURSIVE bytes_build_input(_, _, _)
bytes_build_input(src, pos, acc) ==
    IF pos >= Len(src) THEN [err |-> None, buffers |-> acc]
    ELSE LET o == src[pos + 1]
         IN  IF o.type # "bytes" THEN [err |-> Some(TypeError), buffers |-> acc]
             ELSE IF Len(o.value) = 0 THEN [err |-> Some(EmptyBufferError), buffers |-> acc]
             ELSE bytes_build_input(src, pos + 1, Append(acc, o.value))

PyBytesAhoCorasick_new(patterns, matchkind, implementation) ==
    LET b == bytes_build_input(patterns, 0, <<>>)
        built == AhoCorasickBuilder_build(KindOption(implementation),
                                          MatchKindFrom(matchkind), b.buffers)
    IN  IF ~built.ok THEN Err(built.err)
        ELSE IF IsSome(b.err) THEN Err(b.err[1])
        ELSE Ok([ac_impl |-> built.value])

(***************************************************************************)
(* The engine: the Aho-Corasick automaton of sections 4.2 and 4.3.  A trie *)
(* state is the prefix it stands for; `ac` is the record build() returns.  *)
(***************************************************************************)
Root == <<>>
DEAD == <<-1>>
FAIL == <<-2>>

IsLeftmost(ac) == ac.match_kind # "MatchKind::Standard"

IsProperPrefix(p, q) == Len(p) < Len(q) /\ SubSeq(q, 1, Len(p)) = p

\* Under leftmost-first a pattern that has an earlier pattern as a proper prefix
\* can never win and is not inserted in the trie.
Inserted(ac, i) ==
    ac.match_kind = "MatchKind::LeftmostFirst"
        => ~\E j \in 1..(i - 1) : IsProperPrefix(ac.patterns[j], ac.patterns[i])

TrieStates(ac) ==
    {Root} \cup UNION {{SubSeq(ac.patterns[i], 1, k) : k \in 1..Len(ac.patterns[i])} :
                          i \in {j \in 1..Len(ac.patterns) : Inserted(ac, j)}}

\* The terminal pattern ids of a state (0-based, in registration order).
RECURSIVE OwnMatchesFrom(_, _, _)
OwnMatchesFrom(ac, s, i) ==
    IF i > Len(ac.patterns) THEN <<>>
    ELSE (IF Inserted(ac, i) /\ ac.patterns[i] = s THEN <<i - 1>> ELSE <<>>)
         \o OwnMatchesFrom(ac, s, i + 1)

OwnMatches(ac, s) == OwnMatchesFrom(ac, s, 1)

\* The trie transition; the root loops on every byte with no child.
Goto(ac, s, b) ==
    IF s = DEAD THEN DEAD
    ELSE IF Append(s, b) \in TrieStates(ac) THEN Append(s, b)
    ELSE IF s = Root THEN Root
    ELSE FAIL

\* Failure links, breadth first: the link of a state is reached from its
\* parent's link by the same byte.  Under the leftmost kinds a match state has
\* no failure link (it leads to DEAD): once a match is seen, no match that
\* starts later may replace it.
RECURSIVE FailureLink(_, _)
RECURSIVE FollowFailure(_, _, _)
RECURSIVE FollowFailureVia(_, _, _, _)
\* `next` is what the trie holds for (f, b).
FollowFailureVia(ac, f, b, next) ==
    IF next = FAIL THEN FollowFailure(ac, FailureLink(ac, f), b) ELSE next

FollowFailure(ac, f, b) == FollowFailureVia(ac, f, b, Goto(ac, f, b))

FailureLink(ac, s) ==
    IF s = Root \/ s = DEAD THEN s
    ELSE IF IsLeftmost(ac) /\ Len(OwnMatches(ac, s)) > 0 THEN DEAD
    ELSE IF Len(s) = 1 THEN Root
    ELSE FollowFailure(ac, FailureLink(ac, SubSeq(s, 1, Len(s) - 1)), s[Len(s)])

\* The match list of a state: its own terminal ids, then those of its failure chain.
RECURSIVE StateMatches(_, _)
StateMatches(ac, s) ==
    IF s = Root \/ s = DEAD THEN <<>>
    ELSE OwnMatches(ac, s) \o StateMatches(ac, FailureLink(ac, s))

(***************************************************************************)
(* The three representations.                                              *)
(***************************************************************************)
\* Noncontiguous NFA: sparse transitions, failure links followed while scanning.
nnfa_next_state(ac, sid, byte) == FollowFailure(ac, sid, byte)

\* The contiguous NFA and the DFA number the states breadth first (DEAD is 0,
\* the root 1) and look bytes up by equivalence class.
StateLess(t, s) ==
    \/ Len(t) < Len(s)
    \/ /\ Len(t) = Len(s)
       /\ \E k \in 1..Len(s) : /\ SubSeq(t, 1, k - 1) = SubSeq(s, 1, k - 1)
                               /\ t[k] < s[k]

StateIndex(ac, s) ==
    IF s = DEAD THEN 0
    ELSE Cardinality({t \in TrieStates(ac) : StateLess(t, s)}) + 1

StateAt(ac, i) ==
    IF i = 0 THEN DEAD
    ELSE CHOOSE s \in TrieStates(ac) : StateIndex(ac, s) = i

OtherClass == 256

PatternBytes(ac) == UNION {Range(ac.patterns[i]) : i \in 1..Len(ac.patterns)}

ByteClass(ac, byte) == IF byte \in PatternBytes(ac) THEN byte ELSE OtherClass

ByteClasses(ac) == PatternBytes(ac) \cup {OtherClass}

\* The table entry for a trie transition: -1 where the trie has none.
TransitionEntry(ac, next) == IF next = FAIL THEN -1 ELSE StateIndex(ac, next)

\* Contiguous NFA: per state a dense row of transitions, the index of its
\* failure state and its match list.
ContiguousRow(ac, s) ==
    [trans |-> [c \in ByteClasses(ac) |-> TransitionEntry(ac, Goto(ac, s, c))],
     fail |-> StateIndex(ac, FailureLink(ac, s)),
     matches |-> StateMatches(ac, s)]

ContiguousTable(ac) ==
    [i \in 0..Cardinality(TrieStates(ac)) |-> ContiguousRow(ac, StateAt(ac, i))]

RECURSIVE cnfa_walk(_, _, _)
cnfa_walk(table, i, c) ==
    IF table[i].trans[c] = -1 THEN cnfa_walk(table, table[i].fail, c)
    ELSE table[i].trans[c]

cnfa_next_state(ac, sid, byte) == cnfa_walk(ContiguousTable(ac), sid, ByteClass(ac, byte))

\* A table whose missing transitions restart at the root instead of taking the
\* failure state's entry.
DFAEntry_to_root(ac, s, c, next, table) ==
    IF next = FAIL THEN StateIndex(ac, Root)
    ELSE StateIndex(ac, next)

\* DFA: the full table; where the trie has no transition the entry is the one
\* of the failure state, whose row is filled earlier in breadth-first order.
DFAEntry(ac, s, c, next, table) ==
    IF next = FAIL THEN table[StateIndex(ac, FailureLink(ac, s))][c]
    ELSE StateIndex(ac, next)

DFARow(ac, s, table) ==
    [c \in ByteClasses(ac) |-> DFAEntry(ac, s, c, Goto(ac, s, c), table)]

DFATable(ac) ==
    LET table[i \in 0..Cardinality(TrieStates(ac))] == DFARow(ac, StateAt(ac, i), table)
    IN  table

dfa_next_state(ac, sid, byte) == DFATable(ac)[sid][ByteClass(ac, byte)]

(***************************************************************************)
(* The automaton interface the searches use, by representation.            *)
(***************************************************************************)
IsNNFA(ac) == ac.kind = "AhoCorasickKind::NoncontiguousNFA"
IsCNFA(ac) == ac.kind = "AhoCorasickKind::ContiguousNFA"

start_state(ac) == IF IsNNFA(ac) THEN Root ELSE 1

next_state(ac, sid, byte) ==
    IF IsNNFA(ac) THEN nnfa_next_state(ac, sid, byte)
    ELSE IF IsCNFA(ac) THEN cnfa_next_state(ac, sid, byte)
    ELSE dfa_next_state(ac, sid, byte)

is_dead(ac, sid) == IF IsNNFA(ac) THEN sid = DEAD ELSE sid = 0

\* The pattern ids a state reports, in the order it reports them.
state_matches(ac, sid) ==
    IF IsNNFA(ac) THEN StateMatches(ac, sid)
    ELSE IF IsCNFA(ac) THEN ContiguousTable(ac)[sid].matches
    ELSE StateMatches(ac, StateAt(ac, sid))

\* get_match: the index-th pattern of a state's match list `ms`, ending at `at`.
get_match(ac, ms, index, at) ==
    [pattern |-> ms[index + 1],
     start |-> at - Len(ac.patterns[ms[index + 1] + 1]),
     end |-> at]

(***************************************************************************)
(* The searches (section 4.3).                                             *)
(***************************************************************************)
\* One forward search from byte offset `at`.  The standard kind reports a match
\* as soon as a match state is entered; the leftmost kinds remember the last
\* match and go on until the automaton dies or the haystack ends.
RECURSIVE find_fwd(_, _, _, _, _)
RECURSIVE find_fwd_in(_, _, _, _, _, _)
\* `sid` is the state entered by the byte at `at`, `ms` its match list.
find_fwd_in(ac, haystack, sid, ms, at, mat) ==
    IF is_dead(ac, sid) THEN mat
    ELSE IF Len(ms) = 0 THEN find_fwd(ac, haystack, sid, at + 1, mat)
    ELSE IF IsLeftmost(ac)
         THEN find_fwd(ac, haystack, sid, at + 1, Some(get_match(ac, ms, 0, at + 1)))
         ELSE Some(get_match(ac, ms, 0, at + 1))

RECURSIVE find_fwd_to(_, _, _, _, _)
find_fwd_to(ac, haystack, sid, at, mat) ==
    find_fwd_in(ac, haystack, sid, state_matches(ac, sid), at, mat)

find_fwd(ac, haystack, sid, at, mat) ==
    IF at >= Len(haystack) THEN mat
    ELSE find_fwd_to(ac, haystack, next_state(ac, sid, haystack[at + 1]), at, mat)

\* The non-overlapping iterator: each search starts where the last match ended.
RECURSIVE find_iter(_, _, _)
RECURSIVE find_iter_after(_, _, _)
find_iter_after(ac, haystack, m) ==
    IF IsNone(m) THEN <<>>
    ELSE <<m[1]>> \o find_iter(ac, haystack, m[1].end)

find_iter(ac, haystack, at) ==
    find_iter_after(ac, haystack, find_fwd(ac, haystack, start_state(ac), at, None))

\* The overlapping iterator: at every position every pattern of the state's
\* match list, then one byte further.
RECURSIVE find_overlapping_iter(_, _, _, _)
RECURSIVE find_overlapping_in(_, _, _, _, _)
find_overlapping_in(ac, haystack, sid, ms, at) ==
    IF is_dead(ac, sid) THEN <<>>
    ELSE [k \in 1..Len(ms) |-> get_match(ac, ms, k - 1, at + 1)]
         \o find_overlapping_iter(ac, haystack, sid, at + 1)

RECURSIVE find_overlapping_to(_, _, _, _)
find_overlapping_to(ac, haystack, sid, at) ==
    find_overlapping_in(ac, haystack, sid, state_matches(ac, sid), at)

find_overlapping_iter(ac, haystack, sid, at) ==
    IF at >= Len(haystack) THEN <<>>
    ELSE find_overlapping_to(ac, haystack, next_state(ac, sid, haystack[at + 1]), at)

UnsupportedOverlapping(match_kind) ==
    "match kind " \o match_kind \o " does not support overlapping searches"

try_find_iter(ac, haystack) == Ok(find_iter(ac, haystack, 0))

try_find_overlapping_iter(ac, haystack) ==
    IF ac.match_kind # "MatchKind::Standard" THEN Err(UnsupportedOverlapping(ac.match_kind))
    ELSE Ok(find_overlapping_iter(ac, haystack, start_state(ac), 0))

(***************************************************************************)
(* lib.rs: the scans.                                                      *)
(***************************************************************************)
\* PyValueError::new_err(e.to_string())
match_error_to_pyerror(e) == "ValueError: " \o e

\* Option<I>::into_iter().flatten()
Flatten(o) == IF IsSome(o) THEN o[1] ELSE <<>>

\* Lines 63-66: the two optional iterators, chained.
ChainIterators(overlapping_it, non_overlapping_it) ==
    Flatten(overlapping_it) \o Flatten(non_overlapping_it)

\* A slip that drops the engine's error and reports no match.
get_matches_of_unchecked(overlapping, r) ==
    IF ~r.ok THEN Ok(<<>>)
    ELSE Ok(ChainIterators(IF overlapping THEN Some(r.value) ELSE None,
                           IF overlapping THEN None ELSE Some(r.value)))

\* Lines 49-61 with `r` the engine's answer: an error leaves at once (the `?`).
get_matches_of(overlapping, r) ==
    IF ~r.ok THEN Err(match_error_to_pyerror(r.err))
    ELSE Ok(ChainIterators(IF overlapping THEN Some(r.value) ELSE None,
                           IF overlapping THEN None ELSE Some(r.value)))

\* A slip that takes the overlapping iterator when the flag is off.
get_matches_inverted(ac_impl, haystack, overlapping) ==
    get_matches_of(~overlapping,
                   IF ~overlapping THEN try_find_overlapping_iter(ac_impl, haystack)
                   ELSE try_find_iter(ac_impl, haystack))

get_matches(ac_impl, haystack, overlapping) ==
    get_matches_of(overlapping,
                   IF overlapping THEN try_find_overlapping_iter(ac_impl, haystack)
                   ELSE try_find_iter(ac_impl, haystack))

\* vec![usize::MAX; ..]: the value of an entry no character starts at.  It stands
\* for usize::MAX, above every offset of the model.
UsizeMax == 2147483647

\* haystack.char_indices(): the byte offsets at which a character starts.
char_indices(haystack) == {i \in 0..(Len(haystack) - 1) : ~IsContinuation(haystack[i + 1])}

\* A slip that leaves out the entry for the end of the haystack.
byte_to_code_point_of_no_end(haystack, starts) ==
    [byte_off \in 0..Len(haystack) |->
        IF byte_off \in starts THEN Cardinality({i \in starts : i < byte_off})
        ELSE UsizeMax]

\* Lines 75-86, with `starts` the offsets char_indices() yields.
byte_to_code_point_of(haystack, starts) ==
    [byte_off \in 0..Len(haystack) |->
        IF byte_off = Len(haystack) /\ Len(haystack) > 0
        THEN (IF starts = {} THEN 0 ELSE Cardinality(starts) - 1) + 1
        ELSE IF byte_off \in starts THEN Cardinality({i \in starts : i < byte_off})
        ELSE UsizeMax]

get_byte_to_code_point(haystack) == byte_to_code_point_of(haystack, char_indices(haystack))

\* A slip that puts the end offset before the start offset.
IndexTuples_end_first(matches, byte_to_code_point) ==
    IF ~matches.ok THEN matches
    ELSE Ok([k \in 1..Len(matches.value) |->
                <<matches.value[k].pattern,
                  byte_to_code_point[matches.value[k].end],
                  byte_to_code_point[matches.value[k].start]>>])

\* Lines 238-246: each match with its offsets translated.
IndexTuples(matches, byte_to_code_point) ==
    IF ~matches.ok THEN matches
    ELSE Ok([k \in 1..Len(matches.value) |->
                <<matches.value[k].pattern,
                  byte_to_code_point[matches.value[k].start],
                  byte_to_code_point[matches.value[k].end]>>])

find_matches_as_indexes_bytes(self, bytes, overlapping) ==
    IndexTuples(get_matches(self.ac_impl, bytes, overlapping), get_byte_to_code_point(bytes))

\* PyAhoCorasick::find_matches_as_indexes; `haystack` is the Python str, which
\* reaches the method as its UTF-8 bytes.
find_matches_as_indexes(self, haystack, overlapping) ==
    find_matches_as_indexes_bytes(self, Utf8Encode(haystack), overlapping)

Panic == "panic"

\* A slip that slices the haystack up to and including the end offset.
MatchStrings_inclusive_end(patterns, bytes, matches) ==
    IF ~matches.ok THEN matches
    ELSE IF IsSome(patterns)
    THEN IF \E k \in 1..Len(matches.value) : matches.value[k].pattern >= Len(patterns[1])
         THEN Err(Panic)
         ELSE Ok([k \in 1..Len(matches.value) |-> patterns[1][matches.value[k].pattern + 1]])
    ELSE IF \E k \in 1..Len(matches.value) :
                \/ matches.value[k].end + 1 > Len(bytes)
                \/ ~IsCharBoundary(bytes, matches.value[k].start)
                \/ ~IsCharBoundary(bytes, matches.value[k].end + 1)
         THEN Err(Panic)
         ELSE Ok([k \in 1..Len(matches.value) |->
                     PyStr(Utf8Decode(Slice(bytes, matches.value[k].start,
                                            matches.value[k].end + 1)))])

\* Lines 262-270: the retained pattern of each match, or the matched slice of
\* the haystack.  Indexing past the store and slicing inside a character panic.
MatchStrings(patterns, bytes, matches) ==
    IF ~matches.ok THEN matches
    ELSE IF IsSome(patterns)
    THEN IF \E k \in 1..Len(matches.value) : matches.value[k].pattern >= Len(patterns[1])
         THEN Err(Panic)
         ELSE Ok([k \in 1..Len(matches.value) |-> patterns[1][matches.value[k].pattern + 1]])
    ELSE IF \E k \in 1..Len(matches.value) :
                \/ ~IsCharBoundary(bytes, matches.value[k].start)
                \/ ~IsCharBoundary(bytes, matches.value[k].end)
         THEN Err(Panic)
         ELSE Ok([k \in 1..Len(matches.value) |->
                     PyStr(Utf8Decode(Slice(bytes, matches.value[k].start,
                                            matches.value[k].end)))])

find_matches_as_strings_bytes(self, bytes, overlapping) ==
    MatchStrings(self.patterns, bytes, get_matches(self.ac_impl, bytes, overlapping))

\* PyAhoCorasick::find_matches_as_strings
find_matches_as_strings(self, haystack, overlapping) ==
    find_matches_as_strings_bytes(self, Utf8Encode(haystack), overlapping)

\* Lines 430-432: byte mode reports the engine's offsets as they are.
ByteIndexTuples(matches) ==
    IF ~matches.ok THEN matches
    ELSE Ok([k \in 1..Len(matches.value) |->
                <<matches.value[k].pattern, matches.value[k].start, matches.value[k].end>>])

\* PyBytesAhoCorasick::find_matches_as_indexes; `haystack` is a Python object.
bytes_find_matches_as_indexes(self, haystack, overlapping) ==
    IF haystack.type # "bytes" THEN Err(TypeError)
    ELSE ByteIndexTuples(get_matches(self.ac_impl, haystack.value, overlapping))

(***************************************************************************)
(* The inputs of the model.                                                *)
(***************************************************************************)
\* 'a' (one byte in UTF-8) and U+00E9 (two bytes).
CodePoints == {97, 233}

Strings(n) == SeqsUpTo(CodePoints, n)

ValidPatterns == {PyStr(cps) : cps \in Strings(MaxPatLen) \ {<<>>}}

\* Fixed examples beside the enumerated lists: a, ab, abc, a pattern inside a
\* longer one, and patterns over U+2605 (three bytes) and U+1F600 (four bytes).
ExamplePatternLists ==
    {<<PyStr(<<97>>), PyStr(<<97, 98>>), PyStr(<<97, 98, 99>>)>>,
     <<PyStr(<<97, 98, 99>>), PyStr(<<98>>)>>,
     <<PyStr(<<9733, 98, 97, 114>>), PyStr(<<128512>>)>>}

ExampleHaystacks ==
    {<<97, 98, 99, 100>>,
     <<99, 97, 102, 233, 9733, 98, 97, 114>>,
     <<128512, 233, 9733, 98, 97, 114, 128512>>}

PatternLists == SeqsUpTo(ValidPatterns, MaxPatterns) \cup ExamplePatternLists

Haystacks == Strings(MaxHayLen) \cup ExampleHaystacks

\* Byte mode: buffers over two byte values, one of them no valid UTF-8.
ByteValues == {97, 255}

ValidBuffers == {PyBuf(bs) : bs \in SeqsUpTo(ByteValues, MaxPatLen) \ {<<>>}}

BufferLists == SeqsUpTo(ValidBuffers, MaxPatterns)

ByteHaystacks == {PyBuf(bs) : bs \in SeqsUpTo(ByteValues, MaxHayLen)} \cup {PyInt}

\* Construction: what a caller's list may hold.  The long string has exactly
\* HeuristicThreshold characters, so that one more character exceeds the threshold.
LongString == [i \in 1..HeuristicThreshold |-> 97] \o <<>>

\* U+DC80 is a lone surrogate: a code point a Python str may hold and UTF-8 cannot.
NewObjects ==
    {PyStr(<<97>>), PyStr(<<>>), PyStr(<<56448>>), PyInt, PyStr(LongString)}

NewPatternLists == SeqsUpTo(NewObjects, MaxNewPatterns)

NewBuffers == {PyBuf(<<97>>), PyBuf(<<>>), PyInt}

NewBufferLists == SeqsUpTo(NewBuffers, MaxNewPatterns)

StorePatternsOptions == {None, Some(TRUE), Some(FALSE)}

ImplementationOptions == {None} \cup {Some(i) : i \in Implementation}

(***************************************************************************)
(* The state machine.  obj and bobj hold the constructed AhoCorasick and   *)
(* BytesAhoCorasick objects (None before construction and after a failed   *)
(* one), call the last call with its arguments, res what it returned.  A   *)
(* behaviour constructs one object and scans one haystack with it: the     *)
(* objects are immutable, so a second scan sees what a first one sees.     *)
(***************************************************************************)
NoCall ==
    [op |-> "init", patterns |-> <<>>, matchkind |-> "Standard", store_patterns |-> None,
     implementation |-> None, haystack |-> <<>>, overlapping |-> FALSE]

Init ==
    /\ obj = None
    /\ bobj = None
    /\ call = NoCall
    /\ res = Ok(<<>>)

PyAhoCorasickNew(lists, stores, implementations) ==
    \E patterns \in lists, matchkind \in PyMatchKind,
       store_patterns \in stores, implementation \in implementations :
        LET r == PyAhoCorasick_new(patterns, matchkind, store_patterns, implementation)
        IN  /\ call.op = "init"
            /\ call' = [NoCall EXCEPT !.op = "AhoCorasick", !.patterns = patterns,
                                      !.matchkind = matchkind,
                                      !.store_patterns = store_patterns,
                                      !.implementation = implementation]
            /\ res' = r
            /\ obj' = IF r.ok THEN Some(r.value) ELSE None
            /\ UNCHANGED bobj

PyBytesAhoCorasickNew(lists) ==
    \E patterns \in lists, matchkind \in PyMatchKind,
       implementation \in ImplementationOptions :
        LET r == PyBytesAhoCorasick_new(patterns, matchkind, implementation)
        IN  /\ call.op = "init"
            /\ call' = [NoCall EXCEPT !.op = "BytesAhoCorasick", !.patterns = patterns,
                                      !.matchkind = matchkind,
                                      !.implementation = implementation]
            /\ res' = r
            /\ bobj' = IF r.ok THEN Some(r.value) ELSE None
            /\ UNCHANGED obj

FindMatchesAsIndexes ==
    \E haystack \in Haystacks, overlapping \in BOOLEAN :
        /\ call.op = "AhoCorasick"
        /\ IsSome(obj)
        /\ call' = [call EXCEPT !.op = "find_matches_as_indexes", !.haystack = haystack,
                                !.overlapping = overlapping]
        /\ res' = find_matches_as_indexes(obj[1], haystack, overlapping)
        /\ UNCHANGED <<obj, bobj>>

FindMatchesAsStrings ==
    \E haystack \in Haystacks, overlapping \in BOOLEAN :
        /\ call.op = "AhoCorasick"
        /\ IsSome(obj)
        /\ call' = [call EXCEPT !.op = "find_matches_as_strings", !.haystack = haystack,
                                !.overlapping = overlapping]
        /\ res' = find_matches_as_strings(obj[1], haystack, overlapping)
        /\ UNCHANGED <<obj, bobj>>

BytesFindMatchesAsIndexes ==
    \E haystack \in ByteHaystacks, overlapping \in BOOLEAN :
        /\ call.op = "BytesAhoCorasick"
        /\ IsSome(bobj)
        /\ call' = [call EXCEPT !.op = "bytes_find_matches_as_indexes",
                                !.haystack = haystack, !.overlapping = overlapping]
        /\ res' = bytes_find_matches_as_indexes(bobj[1], haystack, overlapping)
        /\ UNCHANGED <<obj, bobj>>

\* Scans that report offsets, in text mode and in byte mode.  Retention does not
\* enter find_matches_as_indexes; the objects are built with the default policy.
Next ==
    \/ PyAhoCorasickNew(PatternLists, {None}, ImplementationOptions)
    \/ PyBytesAhoCorasickNew(BufferLists)
    \/ FindMatchesAsIndexes
    \/ BytesFindMatchesAsIndexes

Spec == Init /\ [][Next]_vars

\* Scans that report strings, under every retention policy.
NextStrings ==
    \/ PyAhoCorasickNew(PatternLists, StorePatternsOptions, {None, Some("NoncontiguousNFA")})
    \/ FindMatchesAsStrings

SpecStrings == Init /\ [][NextStrings]_vars

\* Construction alone, over lists that may hold anything a caller can pass.
NextNew ==
    \/ PyAhoCorasickNew(NewPatternLists, StorePatternsOptions, ImplementationOptions)
    \/ PyBytesAhoCorasickNew(NewBufferLists)

SpecNew == Init /\ [][NextNew]_vars

(***************************************************************************)
(* What the claims speak of.                                               *)
(***************************************************************************)
\* The caller's patterns as plain sequences (code points in text mode, bytes
\* in byte mode) and the last call's haystack likewise.
CallPatterns == [i \in 1..Len(call.patterns) |-> call.patterns[i].value]

TextScan == call.op = "find_matches_as_indexes"
ByteScan == call.op = "bytes_find_matches_as_indexes" /\ call.haystack.type = "bytes"

\* Pattern id (0-based) occurs in H at offset s: the naive substring test.
OccursAt(P, H, id, s) ==
    /\ s + Len(P[id + 1]) <= Len(H)
    /\ Slice(H, s, s + Len(P[id + 1])) = P[id + 1]

StartsAt(P, H, s) == \E id \in 0..(Len(P) - 1) : OccursAt(P, H, id, s)

\* A record <<id, s, e>> is an occurrence of pattern id.
TrueOccurrence(P, H, r) ==
    /\ r[1] \in 0..(Len(P) - 1)
    /\ r[2] >= 0
    /\ OccursAt(P, H, r[1], r[2])
    /\ r[3] = r[2] + Len(P[r[1] + 1])

PrevEnd(R, k) == IF k = 1 THEN 0 ELSE R[k - 1][3]

\* Record k starts at the first offset, from the end of record k - 1 on, at
\* which any pattern occurs.
LeftmostStart(P, H, R, k) ==
    /\ R[k][2] >= PrevEnd(R, k)
    /\ \A s \in PrevEnd(R, k)..(R[k][2] - 1) : ~StartsAt(P, H, s)

LongestAtStart(P, H, r) ==
    \A id \in 0..(Len(P) - 1) : OccursAt(P, H, id, r[2]) => Len(P[id + 1]) <= Len(P[r[1] + 1])

FirstAtStart(P, H, r) ==
    \A id \in 0..(r[1] - 1) : ~OccursAt(P, H, id, r[2])

\* The number of code points of H encoded before byte offset `off`, -1 if `off`
\* is not the end of an encoded prefix.
CodePointsBefore(H, off) ==
    IF \E n \in 0..Len(H) : Len(Utf8Encode(SubSeq(H, 1, n))) = off
    THEN CHOOSE n \in 0..Len(H) : Len(Utf8Encode(SubSeq(H, 1, n))) = off
    ELSE -1

IsEmptyPattern(o) == o.type \in {"str", "bytes"} /\ Len(o.value) = 0

\* The total length of the first k patterns of the call.
RECURSIVE RunningTotal(_)
RunningTotal(k) == IF k = 0 THEN 0 ELSE RunningTotal(k - 1) + Len(call.patterns[k].value)

ExampleABC == <<PyStr(<<97>>), PyStr(<<97, 98>>), PyStr(<<97, 98, 99>>)>>

(***************************************************************************)
(* C1.  Construction, in text mode and in byte mode, fails with the        *)
(* empty-pattern error and yields no object whenever the caller's sequence *)
(* of patterns (strings, or buffers in byte mode) holds a zero-length one, *)
(* wherever it stands and whatever the match kind, the representation and  *)
(* the retention policy.                                                   *)
(***************************************************************************)
C1_EmptyPatternRejected ==
    /\ (/\ call.op = "AhoCorasick"
        /\ \A i \in 1..Len(call.patterns) : call.patterns[i].type = "str"
        /\ \E i \in 1..Len(call.patterns) : IsEmptyPattern(call.patterns[i]))
           => (~res.ok /\ res.err = EmptyStringError /\ IsNone(obj))
    /\ (/\ call.op = "BytesAhoCorasick"
        /\ \A i \in 1..Len(call.patterns) : call.patterns[i].type = "bytes"
        /\ \E i \in 1..Len(call.patterns) : IsEmptyPattern(call.patterns[i]))
           => (~res.ok /\ res.err = EmptyBufferError /\ IsNone(bobj))

(***************************************************************************)
(* C9.  Whenever text-mode construction succeeds, the automaton registers  *)
(* every pattern of the caller's sequence, the i-th under pattern id i: a  *)
(* pattern that cannot be converted never yields an automaton that omits   *)
(* it and the patterns after it.                                           *)
(***************************************************************************)
C9_EveryPatternRegistered ==
    (call.op = "AhoCorasick" /\ res.ok) =>
        /\ Len(obj[1].ac_impl.patterns) = Len(call.patterns)
        /\ \A i \in 1..Len(call.patterns) :
               /\ IsSome(extract_String(call.patterns[i]))
               /\ obj[1].ac_impl.patterns[i] = extract_String(call.patterns[i])[1]

(***************************************************************************)
(* C10 as stated.  Under the heuristic policy, when the running total of   *)
(* the pattern lengths never exceeds 4096 all patterns are retained, and   *)
(* when it first exceeds 4096 at the k-th pattern the first k patterns     *)
(* stay in the object's pattern store.                                     *)
(***************************************************************************)
HeuristicBuilt == call.op = "AhoCorasick" /\ IsNone(call.store_patterns) /\ res.ok

Exceeds(k) == RunningTotal(k) > HeuristicThreshold /\ RunningTotal(k - 1) <= HeuristicThreshold

OverlappingScan == (TextScan \/ ByteScan) /\ call.overlapping

C2_OverlappingNeedsStandard ==
    OverlappingScan =>
        IF call.matchkind = "Standard"
        THEN res.ok
        ELSE /\ ~res.ok
             /\ res.value = <<>>
             /\ res.err = "ValueError: " \o UnsupportedOverlapping(MatchKindFrom(call.matchkind))

C2_Witness ==
    /\ ByteScan
    /\ call.overlapping
    /\ call.matchkind = "LeftmostLongest"
    /\ ~res.ok
    /\ StartsAt(CallPatterns, call.haystack.value, 0)

(***************************************************************************)
(* C3.  A non-overlapping text scan of a standard automaton reports only   *)
(* true occurrences (the haystack slice between a record's offsets is the  *)
(* record's pattern), its records are pairwise disjoint, and every         *)
(* brute-force occurrence is either reported or overlaps a reported record *)
(* that ends no later than it does.                                        *)
(***************************************************************************)
StandardScan == TextScan /\ ~call.overlapping /\ call.matchkind = "Standard"

Reported(R, r) == \E k \in 1..Len(R) : R[k] = r

C3_StandardSoundAndCovering ==
    StandardScan =>
        LET P == CallPatterns
            H == call.haystack
            R == res.value
        IN  /\ res.ok
            /\ \A k \in 1..Len(R) : TrueOccurrence(P, H, R[k])
            /\ \A j, k \in 1..Len(R) : j < k => R[j][3] <= R[k][2]
            /\ \A id \in 0..(Len(P) - 1) : \A s \in 0..Len(H) :
                   OccursAt(P, H, id, s) =>
                       LET e == s + Len(P[id + 1])
                       IN  \/ Reported(R, <<id, s, e>>)
                           \/ \E k \in 1..Len(R) : R[k][2] < e /\ s < R[k][3] /\ R[k][3] <= e

\* Two records are reported and an occurrence is left out because an
\* earlier record overlaps it.
C3_Witness ==
    /\ StandardScan
    /\ Len(res.value) >= 2
    /\ \E id \in 0..(Len(CallPatterns) - 1) : \E s \in 0..Len(call.haystack) :
           /\ OccursAt(CallPatterns, call.haystack, id, s)
           /\ ~Reported(res.value, <<id, s, s + Len(CallPatterns[id + 1])>>)

(***************************************************************************)
(* C4 as stated.  In every non-overlapping text scan each record starts at *)
(* the leftmost position, at or after the previous record's end, where any *)
(* pattern occurs; leftmost-longest reports the longest pattern occurring  *)
(* there and leftmost-first the one with the lowest id; patterns           *)
(* [a, ab, abc] on "abcd" give (2, 0, 3) and (0, 0, 1) respectively.       *)
(***************************************************************************)
NonOverlappingScan == TextScan /\ ~call.overlapping /\ res.ok

LeftmostRecords(P, H, R) ==
    \A k \in 1..Len(R) : TrueOccurrence(P, H, R[k]) /\ LeftmostStart(P, H, R, k)

KindChoice(P, H, R) ==
    /\ call.matchkind = "LeftmostLongest" => \A k \in 1..Len(R) : LongestAtStart(P, H, R[k])
    /\ call.matchkind = "LeftmostFirst" => \A k \in 1..Len(R) : FirstAtStart(P, H, R[k])
    /\ (call.patterns = ExampleABC /\ call.haystack = <<97, 98, 99, 100>>) =>
           /\ call.matchkind = "LeftmostLongest" => R = <<<<2, 0, 3>>>>
           /\ call.matchkind = "LeftmostFirst" => R = <<<<0, 0, 1>>>>

C4_LeftmostEveryKind ==
    NonOverlappingScan =>
        /\ LeftmostRecords(CallPatterns, call.haystack, res.value)
        /\ KindChoice(CallPatterns, call.haystack, res.value)

(***************************************************************************)
(* C4 amended.  In a non-overlapping text scan of a leftmost-first or      *)
(* leftmost-longest automaton each record starts at the leftmost position, *)
(* at or after the previous record's end, where any pattern occurs;        *)
(* leftmost-longest reports the longest pattern occurring there and        *)
(* leftmost-first the one with the lowest id; [a, ab, abc] on "abcd" give  *)
(* (2, 0, 3) and (0, 0, 1).  A standard automaton is not bound by the      *)
(* leftmost rule.                                                          *)
(***************************************************************************)
C4_LeftmostForLeftmostKinds ==
    (NonOverlappingScan /\ call.matchkind # "Standard") =>
        LET P == CallPatterns
            H == call.haystack
            R == res.value
        IN  /\ LeftmostRecords(P, H, R)
            /\ KindChoice(P, H, R)

\* A leftmost-longest scan reports a later pattern where an earlier, shorter
\* one occurs at the same start, and then a second record.
C4_Witness ==
    /\ NonOverlappingScan
    /\ call.matchkind = "LeftmostLongest"
    /\ Len(res.value) >= 2
    /\ \E id \in 0..(res.value[1][1] - 1) : OccursAt(CallPatterns, call.haystack, id, res.value[1][2])

(***************************************************************************)
(* C5.  In text mode the offsets of every record are code-point counts:    *)
(* the start and the end are the numbers of code points before the         *)
(* engine's byte offsets, never the sentinel and never the byte offsets    *)
(* themselves, and the haystack's code points between them spell the       *)
(* record's pattern.                                                       *)
(***************************************************************************)
C5_OffsetsAreCodePoints ==
    (TextScan /\ res.ok) =>
        LET H == call.haystack
            ms == get_matches(obj[1].ac_impl, Utf8Encode(H), call.overlapping).value
            R == res.value
        IN  /\ Len(R) = Len(ms)
            /\ \A k \in 1..Len(R) :
                   /\ R[k][1] = ms[k].pattern
                   /\ R[k][2] = CodePointsBefore(H, ms[k].start)
                   /\ R[k][3] = CodePointsBefore(H, ms[k].end)
                   /\ R[k][2] \in 0..Len(H)
                   /\ R[k][3] \in 0..Len(H)
                   /\ Slice(H, R[k][2], R[k][3]) = CallPatterns[R[k][1] + 1]

\* A match behind a multi-byte code point that ends with the haystack.
C5_Witness ==
    /\ TextScan
    /\ res.ok
    /\ \E k \in 1..Len(res.value) :
           LET m == get_matches(obj[1].ac_impl, Utf8Encode(call.haystack), call.overlapping).value[k]
           IN  /\ m.start > res.value[k][2]
               /\ m.end = Len(Utf8Encode(call.haystack))
               /\ res.value[k][3] = Len(call.haystack)

(***************************************************************************)
(* C6.  The three engine representations are interchangeable: the same     *)
(* patterns, match kind, haystack and overlapping flag give the same       *)
(* result whichever representation the automaton was built with.           *)
(***************************************************************************)
C6_RepresentationsAgree ==
    /\ TextScan =>
           \A impl \in Implementation :
               find_matches_as_indexes(
                   PyAhoCorasick_new(call.patterns, call.matchkind, call.store_patterns, Some(impl)).value,
                   call.haystack, call.overlapping) = res
    /\ call.op = "bytes_find_matches_as_indexes" =>
           \A impl \in Implementation :
               bytes_find_matches_as_indexes(
                   PyBytesAhoCorasick_new(call.patterns, call.matchkind, Some(impl)).value,
                   call.haystack, call.overlapping) = res

\* A scan by the DFA that took a failure transition between two matches.
C6_Witness ==
    /\ TextScan
    /\ call.implementation = Some("DFA")
    /\ res.ok
    /\ Len(res.value) >= 2
    /\ \E s \in 0..Len(call.haystack) :
           /\ StartsAt(CallPatterns, call.haystack, s)
           /\ \A k \in 1..Len(res.value) : res.value[k][2] # s

(***************************************************************************)
(* C7 as stated.  Every scan's result is ordered by ascending start        *)
(* offset, overlapping scans of a standard automaton included, and for a   *)
(* standard automaton records with the same start are ordered by ascending *)
(* end offset.                                                             *)
(***************************************************************************)
AnyScanOk == (TextScan \/ ByteScan) /\ res.ok

AscendingStart(R) == \A k \in 1..(Len(R) - 1) : R[k][2] <= R[k + 1][2]

C7_AscendingStart ==
    AnyScanOk =>
        /\ AscendingStart(res.value)
        /\ call.matchkind = "Standard" =>
               \A k \in 1..(Len(res.value) - 1) :
                   res.value[k][2] = res.value[k + 1][2] => res.value[k][3] <= res.value[k + 1][3]

(***************************************************************************)
(* C7 amended.  A non-overlapping scan's result is ordered by strictly     *)
(* ascending start offset.  An overlapping scan of a standard automaton is *)
(* ordered by ascending end offset, and records with the same end are      *)
(* ordered by ascending start offset; its starts need not ascend.          *)
(***************************************************************************)
C7_AscendingStartOrEnd ==
    AnyScanOk =>
        LET R == res.value
        IN  IF call.overlapping
            THEN \A k \in 1..(Len(R) - 1) :
                     /\ R[k][3] <= R[k + 1][3]
                     /\ R[k][3] = R[k + 1][3] => R[k][2] <= R[k + 1][2]
            ELSE \A k \in 1..(Len(R) - 1) : R[k][2] < R[k + 1][2]

\* An overlapping scan whose starts descend.
C7_Witness ==
    /\ AnyScanOk
    /\ call.overlapping
    /\ ~AscendingStart(res.value)

(***************************************************************************)
(* C8.  find_matches_as_strings returns the same strings whether the       *)
(* automaton retained the caller's patterns (lookup by pattern id) or not  *)
(* (the haystack sliced at the match offsets): for every match the         *)
(* retained pattern at its id equals the haystack between its offsets.     *)
(***************************************************************************)
StringsScan == call.op = "find_matches_as_strings"

C8_StringsSameWithOrWithoutStore ==
    StringsScan =>
        /\ \A store \in BOOLEAN :
               find_matches_as_strings(
                   PyAhoCorasick_new(call.patterns, call.matchkind, Some(store),
                                     call.implementation).value,
                   call.haystack, call.overlapping) = res
        /\ res.ok =>
               LET R == find_matches_as_indexes(obj[1], call.haystack, call.overlapping).value
               IN  /\ Len(res.value) = Len(R)
                   /\ \A k \in 1..Len(R) :
                          /\ res.value[k] = call.patterns[R[k][1] + 1]
                          /\ res.value[k] = PyStr(Slice(call.haystack, R[k][2], R[k][3]))

\* An automaton without a pattern store slices a multi-byte match out of the
\* haystack.
C8_Witness ==
    /\ StringsScan
    /\ res.ok
    /\ IsNone(obj[1].patterns)
    /\ \E k \in 1..Len(res.value) : \E i \in 1..Len(res.value[k].value) : res.value[k].value[i] > 127

====
